---- MODULE Spec2Model ----
(***************************************************************************)
(* A model of src/AddressBook.py: the validated fields (Name, Phone,       *)
(* Email, Birthday, Address), the Record entity and the AddressBook        *)
(* collection.                                                             *)
(*                                                                         *)
(* A Python str is a sequence of one-character strings, so that the        *)
(* regular expressions, len(), slicing and isdigit() of the source are     *)
(* computed on the characters.  A date is a record [year, month, day].     *)
(***************************************************************************)
EXTENDS Integers, Sequences, FiniteSets, TLC

VARIABLES
    today,   \* date.today(): fixed during a behaviour
    field,   \* the field object the caller holds: [cls, value], or NoField
    rec,     \* the Record object the caller holds, or NoRecord
    book,    \* AddressBook.data: the entries [key, val] in insertion order
    it,      \* the generator made by AddressBook.iterator, or Idle
    last     \* the last call: its name, arguments, outcome and return value

vars == <<today, field, rec, book, it, last>>

----------------------------------------------------------------------------
(* Characters and strings *)

Digits == {"0", "1", "2", "3", "4", "5", "6", "7", "8", "9"}

DigitSeq == <<"0", "1", "2", "3", "4", "5", "6", "7", "8", "9">>

Letters ==
    {"a", "b", "c", "d", "e", "f", "g", "h", "i", "j", "k", "l", "m",
     "n", "o", "p", "q", "r", "s", "t", "u", "v", "w", "x", "y", "z",
     "A", "B", "C", "D", "E", "F", "G", "H", "I", "J", "K", "L", "M",
     "N", "O", "P", "Q", "R", "S", "T", "U", "V", "W", "X", "Y", "Z"}

Whitespace == {" ", "\t", "\n", "\r"}

\* Python's None: no str, since every character of a str is one character long
None == <<"<None>">>

DigitVal(c) == (CHOOSE i \in 1..10 : DigitSeq[i] = c) - 1

AllIn(s, chars) == \A i \in 1..Len(s) : s[i] \in chars

\* str.isdigit(): at least one character, all of them digits
isdigit(s) == Len(s) > 0 /\ AllIn(s, Digits)

\* str.isspace(): at least one character, all of them whitespace
isspace(s) == Len(s) > 0 /\ AllIn(s, Whitespace)

\* int(s) of a digit string
RECURSIVE int(_)
int(s) ==
    IF Len(s) = 0 THEN 0
    ELSE 10 * int(SubSeq(s, 1, Len(s) - 1)) + DigitVal(s[Len(s)])

\* the decimal digits of n, zero-padded to width w (the %04d, %02d of isoformat)
RECURSIVE Pad(_, _)
Pad(n, w) ==
    IF w = 0 THEN <<>>
    ELSE Pad(n \div 10, w - 1) \o <<DigitSeq[(n % 10) + 1]>>

\* s[-n:]
Tail_n(s, n) == IF Len(s) <= n THEN s ELSE SubSeq(s, Len(s) - n + 1, Len(s))

StartsWith(s, p) == Len(s) >= Len(p) /\ SubSeq(s, 1, Len(p)) = p

Ok(v) == [ok |-> TRUE, v |-> v, err |-> "ok"]

Raise(e) == [ok |-> FALSE, v |-> None, err |-> e]

----------------------------------------------------------------------------
(* datetime.date *)

Date(y, m, d) == [year |-> y, month |-> m, day |-> d]

IsLeap(y) == y % 4 = 0 /\ (y % 100 # 0 \/ y % 400 = 0)

DaysInMonth(y, m) ==
    IF m = 2 THEN (IF IsLeap(y) THEN 29 ELSE 28)
    ELSE IF m \in {4, 6, 9, 11} THEN 30 ELSE 31

DaysBeforeYear(y) ==
    LET p == y - 1 IN p * 365 + (p \div 4) - (p \div 100) + (p \div 400)

RECURSIVE DaysBeforeMonth(_, _)
DaysBeforeMonth(y, m) ==
    IF m = 1 THEN 0 ELSE DaysBeforeMonth(y, m - 1) + DaysInMonth(y, m - 1)

\* date.toordinal()
toordinal(d) == DaysBeforeYear(d.year) + DaysBeforeMonth(d.year, d.month) + d.day

\* date.max.toordinal(): the ordinal of 9999-12-31
MAXORDINAL == 3652059

IsDate(y, m, d) ==
    /\ y \in 1..9999
    /\ m \in 1..12
    /\ d \in 1..DaysInMonth(y, m)

\* date.replace(year=..., month=..., day=...): ValueError when no such day
replace(d, y, m, dd) ==
    IF IsDate(y, m, dd) THEN Ok(Date(y, m, dd)) ELSE Raise("ValueError")

\* date.fromisoformat(value) for the YYYY-MM-DD form
fromisoformat(s) ==
    IF /\ Len(s) = 10
       /\ s[5] = "-"
       /\ s[8] = "-"
       /\ AllIn(SubSeq(s, 1, 4) \o SubSeq(s, 6, 7) \o SubSeq(s, 9, 10), Digits)
    THEN LET y == int(SubSeq(s, 1, 4))
             m == int(SubSeq(s, 6, 7))
             d == int(SubSeq(s, 9, 10))
         IN IF IsDate(y, m, d) THEN Ok(Date(y, m, d)) ELSE Raise("ValueError")
    ELSE Raise("ValueError")

\* date.isoformat()
isoformat(d) == Pad(d.year, 4) \o <<"-">> \o Pad(d.month, 2) \o <<"-">> \o Pad(d.day, 2)

----------------------------------------------------------------------------
(* The fields *)

\* re.sub(r'[ \(\)\-]', '', value)
StripSeparators(value) ==
    SelectSeq(value, LAMBDA c : c \notin {" ", "(", ")", "-"})

\* one alternative of phone_pattern: the prefix, then \d{9}, and nothing else
PrefixThenNine(s, prefix) ==
    /\ StartsWith(s, prefix)
    /\ Len(s) = Len(prefix) + 9
    /\ AllIn(SubSeq(s, Len(prefix) + 1, Len(s)), Digits)

\* re.fullmatch(r'\+380\d{9}|380\d{9}|80\d{9}|0\d{9}', value)
phone_pattern(s) ==
    \/ PrefixThenNine(s, <<"+", "3", "8", "0">>)
    \/ PrefixThenNine(s, <<"3", "8", "0">>)
    \/ PrefixThenNine(s, <<"8", "0">>)
    \/ PrefixThenNine(s, <<"0">>)

\* Phone._validate: raises, or returns the normalized number
Phone_validate(value) ==
    LET v == StripSeparators(value)
    IN IF ~phone_pattern(v) THEN Raise("ValueError")
       ELSE Ok(<<"+", "3", "8", "0">> \o Tail_n(v, 9))

\* re.fullmatch(r'[a-zA-Z]{1}[\S.]+@[a-zA-Z]+\.[a-zA-Z]{2,}', value)
email_pattern(s) ==
    \E at \in 3..Len(s) : \E dot \in (at + 2)..(Len(s) - 2) :
        /\ s[1] \in Letters
        /\ \A i \in 2..(at - 1) : s[i] \notin Whitespace
        /\ s[at] = "@"
        /\ AllIn(SubSeq(s, at + 1, dot - 1), Letters)
        /\ s[dot] = "."
        /\ AllIn(SubSeq(s, dot + 1, Len(s)), Letters)

\* Email._validate
Email_validate(value) ==
    IF ~email_pattern(value) THEN Raise("ValueError") ELSE Ok(None)

\* Birthday._validate
Birthday_validate(value, now) ==
    LET b_day == fromisoformat(value)
    IN IF ~b_day.ok THEN Raise("ValueError")
       ELSE IF b_day.v.year > now.year THEN Raise("ValueError")
       ELSE Ok(None)

\* Birthday.get_date
get_date(value) == fromisoformat(value).v

\* Address._validate
Address_validate(value) ==
    IF isspace(value) THEN Raise("ValueError")
    ELSE IF ~(5 <= Len(value) /\ Len(value) <= 50) THEN Raise("ValueError")
    ELSE Ok(None)

\* Name.__validate: inside the class body the name is mangled to
\* _Name__validate, so it is not the _validate hook and nothing calls it
Name__validate(value) ==
    IF ~(Len(value) > 2) THEN Raise("ValueError") ELSE Ok(None)

FieldClasses == {"Name", "Phone", "Email", "Birthday", "Address"}

\* The classes whose body defines _validate, the abstract method of
\* AbstractField.  Name defines __validate instead.
DefinesValidate == {"Phone", "Email", "Birthday", "Address"}

\* cls._validate(value), by dynamic dispatch
_validate(cls, value, now) ==
    CASE cls = "Phone" -> Phone_validate(value)
      [] cls = "Email" -> Email_validate(value)
      [] cls = "Birthday" -> Birthday_validate(value, now)
      [] cls = "Address" -> Address_validate(value)

\* AbstractField.value's setter: validate, then store the value as given.
\* What _validate returns is dropped.
value_setter(cls, value, now) ==
    LET r == _validate(cls, value, now)
    IN IF ~r.ok THEN r ELSE Ok(value)

\* cls(value): ABCMeta refuses to instantiate a class that leaves _validate
\* abstract; otherwise AbstractField.__init__ runs the setter.
AbstractField_init(cls, value, now) ==
    IF cls \notin DefinesValidate THEN Raise("TypeError")
    ELSE value_setter(cls, value, now)

\* AbstractField.__str__
Field_str(value) == value

----------------------------------------------------------------------------
(* Record *)

\* Record._name, _phone, _email, _birthday, _address are called by Record
\* but defined nowhere in the source.  They are modelled from the data
\* model of the specification: each turns a raw value into the validated
\* field of its variant.  The phone, email, birthday and address go through
\* the field classes of the source.  The name is checked by the rule the
\* specification gives for it (length > 2), since the Name class of the
\* source cannot be instantiated and no Record could hold one.
_name(name) == IF Len(name) > 2 THEN Ok(name) ELSE Raise("ValueError")

_phone(phone, now) == AbstractField_init("Phone", phone, now)

_email(email, now) == AbstractField_init("Email", email, now)

_birthday(birthday, now) == AbstractField_init("Birthday", birthday, now)

_address(address, now) == AbstractField_init("Address", address, now)

NoRecord ==
    [name |-> None, phones |-> <<>>, email |-> None, birthday |-> None,
     address |-> None]

\* [self._phone(phone) for phone in phones]: the first bad phone raises
PhoneList(phones, now) ==
    IF \E i \in 1..Len(phones) : ~_phone(phones[i], now).ok
    THEN Raise("ValueError")
    ELSE Ok([i \in 1..Len(phones) |-> _phone(phones[i], now).v])

\* None if x is None else conv(x)
Optional(x, conv) == IF x = None THEN Ok(None) ELSE conv

\* Record.__init__
Record_init(name, phones, email, birthday, address, now) ==
    LET n == _name(name)
        p == PhoneList(phones, now)
        e == Optional(email, _email(email, now))
        b == Optional(birthday, _birthday(birthday, now))
        a == Optional(address, _address(address, now))
    IN IF ~n.ok THEN Raise(n.err)
       ELSE IF ~p.ok THEN Raise(p.err)
       ELSE IF ~e.ok THEN Raise(e.err)
       ELSE IF ~b.ok THEN Raise(b.err)
       ELSE IF ~a.ok THEN Raise(a.err)
       ELSE Ok([name |-> n.v, phones |-> p.v, email |-> e.v,
                birthday |-> b.v, address |-> a.v])

\* phone in self.phones: Phone.__eq__ compares the stored values
contains(phones, phone) == \E i \in 1..Len(phones) : phones[i] = phone

\* list.index: the first equal entry
index(phones, phone) ==
    CHOOSE i \in 1..Len(phones) :
        phones[i] = phone /\ \A j \in 1..(i - 1) : phones[j] # phone

\* list.remove: drops the first equal entry
list_remove(phones, phone) ==
    LET i == index(phones, phone)
    IN SubSeq(phones, 1, i - 1) \o SubSeq(phones, i + 1, Len(phones))

\* Record.add_phone: the membership test is on the argument as given
add_phone(r, phone, now) ==
    IF contains(r.phones, phone) THEN Raise("ValueError")
    ELSE LET p == _phone(phone, now)
         IN IF ~p.ok THEN Raise(p.err)
            ELSE Ok([r EXCEPT !.phones = Append(@, p.v)])

\* Record.remove_phone
remove_phone(r, phone, now) ==
    LET p == _phone(phone, now)
    IN IF ~p.ok THEN Raise(p.err)
       ELSE IF ~contains(r.phones, p.v) THEN Raise("ValueError")
       ELSE Ok([r EXCEPT !.phones = list_remove(@, p.v)])

\* The mutant of change_phone that removes the old phone and appends the new.
change_phone_appends(r, old_phone, new_phone, now) ==
    LET o == _phone(old_phone, now)
        n == _phone(new_phone, now)
    IN IF ~o.ok THEN Raise(o.err)
       ELSE IF ~contains(r.phones, o.v) THEN Raise("ValueError")
       ELSE IF ~n.ok THEN Raise(n.err)
       ELSE IF contains(r.phones, n.v) THEN Raise("ValueError")
       ELSE Ok([r EXCEPT !.phones = Append(list_remove(@, o.v), n.v)])

\* Record.change_phone
change_phone(r, old_phone, new_phone, now) ==
    LET o == _phone(old_phone, now)
        n == _phone(new_phone, now)
    IN IF ~o.ok THEN Raise(o.err)
       ELSE IF ~contains(r.phones, o.v) THEN Raise("ValueError")
       ELSE IF ~n.ok THEN Raise(n.err)
       ELSE IF contains(r.phones, n.v) THEN Raise("ValueError")
       ELSE Ok([r EXCEPT !.phones[index(r.phones, o.v)] = n.v])

\* Record.change_birthday
change_birthday(r, birthday, now) ==
    LET b == _birthday(birthday, now)
    IN IF ~b.ok THEN Raise(b.err) ELSE Ok([r EXCEPT !.birthday = b.v])

\* The try block of Record.days_to_birthday
days_to_birthday_try(r, now) ==
    LET first == replace(get_date(r.birthday), now.year,
                         get_date(r.birthday).month, get_date(r.birthday).day)
    IN IF ~first.ok THEN Raise("ValueError")
       ELSE IF toordinal(now) > toordinal(first.v)
       THEN LET next == replace(first.v, now.year + 1, first.v.month, first.v.day)
            IN IF ~next.ok THEN Raise("ValueError")
               ELSE Ok(toordinal(next.v) - toordinal(now))
       ELSE Ok(toordinal(first.v) - toordinal(now))

\* Record.days_to_birthday.  In the except branch the Feb-28 date is the
\* third positional argument of Record, which is the email.
RECURSIVE days_to_birthday(_, _)
days_to_birthday(r, now) ==
    IF r.birthday = None THEN Raise("KeyError")
    ELSE LET t == days_to_birthday_try(r, now)
         IN IF t.ok THEN t
            ELSE LET exept_temp ==
                         Record_init(r.name, <<>>,
                                     isoformat(replace(now, now.year, 2, 28).v),
                                     None, None, now)
                 IN IF ~exept_temp.ok THEN Raise(exept_temp.err)
                    ELSE LET d == days_to_birthday(exept_temp.v, now)
                         IN IF ~d.ok THEN d ELSE Ok(d.v + 1)

\* The mutant of Record_to_dict that takes the address from the email.
Record_to_dict_address_from_email(r) ==
    [key |-> Field_str(r.name),
     val |-> [phones |-> [i \in 1..Len(r.phones) |-> Field_str(r.phones[i])],
              email |-> IF r.email = None THEN None ELSE Field_str(r.email),
              birthday |-> IF r.birthday = None THEN None ELSE Field_str(r.birthday),
              address |-> IF r.address = None THEN None ELSE Field_str(r.email)]]

\* Record.to_dict: the key, and the sub-mapping of strings and None
Record_to_dict(r) ==
    [key |-> Field_str(r.name),
     val |-> [phones |-> [i \in 1..Len(r.phones) |-> Field_str(r.phones[i])],
              email |-> IF r.email = None THEN None ELSE Field_str(r.email),
              birthday |-> IF r.birthday = None THEN None ELSE Field_str(r.birthday),
              address |-> IF r.address = None THEN None ELSE Field_str(r.address)]]

----------------------------------------------------------------------------
(* AddressBook *)

keys(data) == [i \in 1..Len(data) |-> data[i].key]

values(data) == [i \in 1..Len(data) |-> data[i].val]

\* key in self.data
has_key(data, key) == \E i \in 1..Len(data) : data[i].key = key

\* isinstance(val, Record)
IsRecord(val) == val # NoRecord

\* the outcome of a call on the book: the error, the data it leaves, what it returns
BookOk(data, ret) == [ok |-> TRUE, err |-> "ok", data |-> data, ret |-> ret]

BookRaise(e, data) == [ok |-> FALSE, err |-> e, data |-> data, ret |-> None]

\* The mutant of setitem that replaces the value of a key it already holds.
setitem_overwrites(data, key, val) ==
    IF ~IsRecord(val) THEN BookRaise("TypeError", data)
    ELSE IF has_key(data, key)
    THEN BookOk([i \in 1..Len(data) |->
                    IF data[i].key = key THEN [key |-> key, val |-> val]
                    ELSE data[i]], None)
    ELSE BookOk(Append(data, [key |-> key, val |-> val]), None)

\* AddressBook.__setitem__
setitem(data, key, val) ==
    IF ~IsRecord(val) THEN BookRaise("TypeError", data)
    ELSE IF has_key(data, key) THEN BookRaise("KeyError", data)
    ELSE BookOk(Append(data, [key |-> key, val |-> val]), None)

\* AddressBook.add_record: record.name.value of something that is no Record
\* raises before __setitem__ is reached
add_record(data, record) ==
    IF ~IsRecord(record) THEN BookRaise("AttributeError", data)
    ELSE setitem(data, record.name, record)

\* AddressBook.__delitem__
delitem(data, key) ==
    IF ~has_key(data, key) THEN BookRaise("KeyError", data)
    ELSE BookOk(SelectSeq(data, LAMBDA e : e.key # key), None)

\* The mutant of birthday_in_window whose window leaves out its last day.
birthday_in_window_open_end(record, now, last_ordinal) ==
    LET b == get_date(record.birthday)
        birthday == replace(b, now.year, b.month, b.day)
    IN IF ~birthday.ok THEN Raise("ValueError")
       ELSE Ok(/\ toordinal(now) <= toordinal(birthday.v)
               /\ toordinal(birthday.v) < last_ordinal)

\* one pass of the loop of groups_days_to_bd over a record
birthday_in_window(record, now, last_ordinal) ==
    LET b == get_date(record.birthday)
        birthday == replace(b, now.year, b.month, b.day)
    IN IF ~birthday.ok THEN Raise("ValueError")
       ELSE Ok(/\ toordinal(now) <= toordinal(birthday.v)
               /\ toordinal(birthday.v) <= last_ordinal)

\* the for loop of groups_days_to_bd: the first record it cannot handle
\* raises, and any such record ends the call
groups_loop(data, now, last_ordinal) ==
    IF \E i \in 1..Len(data) :
          /\ data[i].val.birthday = None
          /\ \A j \in 1..(i - 1) :
                /\ data[j].val.birthday # None
                /\ birthday_in_window(data[j].val, now, last_ordinal).ok
    THEN BookRaise("AttributeError", data)
    ELSE IF \E i \in 1..Len(data) :
                ~birthday_in_window(data[i].val, now, last_ordinal).ok
    THEN BookRaise("ValueError", data)
    ELSE BookOk(data, SelectSeq(values(data),
                    LAMBDA r : birthday_in_window(r, now, last_ordinal).v))

\* AddressBook.groups_days_to_bd.  timedelta(days=...) takes at most
\* 999999999 days, and today + delta cannot pass date.max.
groups_days_to_bd(data, input_days, now) ==
    IF ~isdigit(input_days) THEN BookRaise("ValueError", data)
    ELSE IF int(input_days) > 999999999 THEN BookRaise("OverflowError", data)
    ELSE IF toordinal(now) + int(input_days) > MAXORDINAL
    THEN BookRaise("OverflowError", data)
    ELSE groups_loop(data, now, toordinal(now) + int(input_days))

\* dict.update with a one-entry mapping
dict_update(d, entry) ==
    IF has_key(d, entry.key)
    THEN [i \in 1..Len(d) |-> IF d[i].key = entry.key THEN entry ELSE d[i]]
    ELSE Append(d, entry)

\* AddressBook.to_dict
RECURSIVE to_dict_loop(_, _)
to_dict_loop(data, res_dict) ==
    IF Len(data) = 0 THEN res_dict
    ELSE to_dict_loop(Tail(data), dict_update(res_dict, Record_to_dict(Head(data).val)))

to_dict(data) == to_dict_loop(data, <<>>)

\* a value that is no dict
NotADict == <<[key |-> None, val |-> None]>>

\* the for loop of from_dict: each entry is built and added in turn
RECURSIVE from_dict_loop(_, _, _)
from_dict_loop(data, items, now) ==
    IF Len(items) = 0 THEN BookOk(data, None)
    ELSE LET e == Head(items)
             r == Record_init(e.key, e.val.phones, e.val.email,
                              e.val.birthday, e.val.address, now)
         IN IF ~r.ok THEN BookRaise(r.err, data)
            ELSE LET a == add_record(data, r.v)
                 IN IF ~a.ok THEN a
                    ELSE from_dict_loop(a.data, Tail(items), now)

\* AddressBook.from_dict
from_dict(data, data_json, now) ==
    IF data_json = NotADict THEN BookRaise("TypeError", data)
    ELSE from_dict_loop(data, data_json, now)

\* The generator of AddressBook.iterator
Idle == [pc |-> "idle", arg |-> 0, item_number |-> 0, counter |-> 0, out |-> <<>>]

\* The mutant of iterator_advance that yields only full pages.
RECURSIVE iterator_advance_full_only(_, _, _, _)
iterator_advance_full_only(data, item_number, counter, list_records) ==
    IF counter = Len(data) THEN [yield |-> FALSE, counter |-> counter, batch |-> <<>>]
    ELSE LET c == counter + 1
             l == Append(list_records, data[c].val)
         IN IF c % item_number = 0
            THEN [yield |-> TRUE, counter |-> c, batch |-> l]
            ELSE iterator_advance_full_only(data, item_number, c, l)

\* the for loop of iterator, run from where it stands to its next yield
\* or to its end
RECURSIVE iterator_advance(_, _, _, _)
iterator_advance(data, item_number, counter, list_records) ==
    IF counter = Len(data) THEN [yield |-> FALSE, counter |-> counter, batch |-> <<>>]
    ELSE LET c == counter + 1
             l == Append(list_records, data[c].val)
         IN IF (c % item_number = 0) \/ c = Len(data)
            THEN [yield |-> TRUE, counter |-> c, batch |-> l]
            ELSE iterator_advance(data, item_number, c, l)

\* the head of iterator, which runs at the first next(): the clamped page size
iterator_item_number(data, item_number) ==
    IF item_number > Len(data) THEN Len(data) ELSE item_number

----------------------------------------------------------------------------
(* The values the calls are made with *)

\* "Ann"
Ann == <<"A", "n", "n">>

\* "Bob"
Bob == <<"B", "o", "b">>

\* "Eve"
Eve == <<"E", "v", "e">>

\* "Dan"
Dan == <<"D", "a", "n">>

\* "Kim"
Kim == <<"K", "i", "m">>

\* "Al"
ShortName == <<"A", "l">>

\* ""
EmptyStr == <<>>

\* "+380931112233"
PhonePlus380 == <<"+", "3", "8", "0", "9", "3", "1", "1", "1", "2", "2", "3", "3">>

\* "380931112233"
Phone380 == <<"3", "8", "0", "9", "3", "1", "1", "1", "2", "2", "3", "3">>

\* "80931112233"
Phone80 == <<"8", "0", "9", "3", "1", "1", "1", "2", "2", "3", "3">>

\* "0931112233"
Phone0 == <<"0", "9", "3", "1", "1", "1", "2", "2", "3", "3">>

\* "(093) 111-22-33"
PhoneSeparated == <<"(", "0", "9", "3", ")", " ", "1", "1", "1", "-", "2", "2", "-", "3", "3">>

\* "+380501234567"
PhoneOther == <<"+", "3", "8", "0", "5", "0", "1", "2", "3", "4", "5", "6", "7">>

\* "931112233"
PhoneNoPrefix == <<"9", "3", "1", "1", "1", "2", "2", "3", "3">>

\* "+3809311122334"
PhoneTooLong == <<"+", "3", "8", "0", "9", "3", "1", "1", "1", "2", "2", "3", "3", "4">>

\* "09311a2233"
PhoneLetter == <<"0", "9", "3", "1", "1", "a", "2", "2", "3", "3">>

\* "ab@c.de"
EmailGood == <<"a", "b", "@", "c", ".", "d", "e">>

\* "a@b.cd"
EmailShortLocal == <<"a", "@", "b", ".", "c", "d">>

\* "1b@c.de"
EmailDigitFirst == <<"1", "b", "@", "c", ".", "d", "e">>

\* "2000-02-29"
BirthdayLeapDay == <<"2", "0", "0", "0", "-", "0", "2", "-", "2", "9">>

\* "1990-03-01"
BirthdayMarch1 == <<"1", "9", "9", "0", "-", "0", "3", "-", "0", "1">>

\* "1985-12-31"
BirthdayDec31 == <<"1", "9", "8", "5", "-", "1", "2", "-", "3", "1">>

\* "2030-01-01"
BirthdayFuture == <<"2", "0", "3", "0", "-", "0", "1", "-", "0", "1">>

\* "2023-02-30"
BirthdayNoSuchDay == <<"2", "0", "2", "3", "-", "0", "2", "-", "3", "0">>

\* "Kyiv1"
AddressGood == <<"K", "y", "i", "v", "1">>

\* "Lviv"
AddressShort == <<"L", "v", "i", "v">>

\* "     " (five spaces)
AddressBlank == <<" ", " ", " ", " ", " ">>

\* "0"
Days0 == <<"0">>

\* "1"
Days1 == <<"1">>

\* "7"
Days7 == <<"7">>

\* "3000000"
DaysHuge == <<"3", "0", "0", "0", "0", "0", "0">>

\* "-1"
DaysNegative == <<"-", "1">>

\* "7d"
DaysLetters == <<"7", "d">>

Names == {Ann, Bob, ShortName, EmptyStr}

RawPhones ==
    {PhonePlus380, Phone380, Phone80, Phone0, PhoneSeparated, PhoneOther,
     PhoneNoPrefix, PhoneTooLong, PhoneLetter, EmptyStr}

Emails == {EmailGood, EmailShortLocal, EmailDigitFirst}

Birthdays ==
    {BirthdayLeapDay, BirthdayMarch1, BirthdayDec31, BirthdayFuture,
     BirthdayNoSuchDay}

Addresses == {AddressGood, AddressShort, AddressBlank}

DayStrings == {Days0, Days1, Days7, DaysHuge, DaysNegative, DaysLetters, EmptyStr}

RawValues == Names \cup RawPhones \cup Emails \cup Birthdays \cup Addresses

\* the raw values a field of class cls is made or set with
Samples(cls) ==
    CASE cls = "Name" -> Names
      [] cls = "Phone" -> RawPhones
      [] cls = "Email" -> Emails
      [] cls = "Birthday" -> Birthdays
      [] cls = "Address" -> Addresses

\* the dates the program is run on: a non-leap year before and after Feb 28,
\* and a leap year on Feb 29 and at its end
Todays ==
    {Date(2023, 2, 22), Date(2023, 3, 1), Date(2024, 2, 29), Date(2024, 12, 31)}

----------------------------------------------------------------------------
(* The calls *)

NoField == [cls |-> "None", value |-> None]

Call(op, args, err, ret, pre) ==
    [op |-> op, args |-> args, err |-> err, ret |-> ret, pre |-> pre]

NoCall == Call("none", <<>>, "ok", None, None)

\* f = cls(value)
Construct(cls, value) ==
    LET r == AbstractField_init(cls, value, today)
    IN /\ field' = IF r.ok THEN [cls |-> cls, value |-> r.v] ELSE field
       /\ last' = Call("construct", <<cls, value>>, r.err, None, field)
       /\ UNCHANGED <<today, rec, book, it>>

\* f.value = value
SetValue(value) ==
    /\ field # NoField
    /\ value \in Samples(field.cls)
    /\ LET r == value_setter(field.cls, value, today)
       IN /\ field' = IF r.ok THEN [field EXCEPT !.value = r.v] ELSE field
          /\ last' = Call("set", <<field.cls, value>>, r.err, None, field)
    /\ UNCHANGED <<today, rec, book, it>>

InitField ==
    /\ today \in Todays
    /\ field = NoField
    /\ rec = NoRecord
    /\ book = <<>>
    /\ it = Idle
    /\ last = NoCall

NextField ==
    \/ \E cls \in FieldClasses : \E value \in Samples(cls) : Construct(cls, value)
    \/ \E value \in RawValues : SetValue(value)

\* The fields alone: a caller that makes a field and assigns to its value
SpecField == InitField /\ [][NextField]_vars

----------------------------------------------------------------------------
(* Claims on the fields *)

\* the nine digits of a raw phone of the form the claim is about, or <<>>:
\* once spaces, parentheses and hyphens are removed, the string is one of the
\* prefixes +380, 380, 80, 0 followed by exactly nine digits
ClaimedNine(raw) ==
    LET v == SelectSeq(raw, LAMBDA c : c # " " /\ c # "(" /\ c # ")" /\ c # "-")
        fits == {p \in {<<"+", "3", "8", "0">>, <<"3", "8", "0">>, <<"8", "0">>, <<"0">>} :
                    /\ Len(v) = Len(p) + 9
                    /\ SubSeq(v, 1, Len(p)) = p
                    /\ \A i \in (Len(p) + 1)..Len(v) : v[i] \in Digits}
    IN IF fits = {} THEN <<>> ELSE SubSeq(v, Len(v) - 8, Len(v))

\* C3: a Phone made from, or set to, a raw string of the claimed form is
\* accepted, and the value read back is +380 followed by its nine digits.
C3_PhoneStoredNormalized ==
    (/\ last.op \in {"construct", "set"}
     /\ last.args[1] = "Phone"
     /\ ClaimedNine(last.args[2]) # <<>>)
    => (/\ last.err = "ok"
        /\ field.cls = "Phone"
        /\ Field_str(field.value) = <<"+", "3", "8", "0">> \o ClaimedNine(last.args[2]))

\* C4: Name(s) fails with a validation error when len(s) <= 2, and otherwise
\* succeeds with a field whose string form is s.
C4_NameConstruction ==
    (last.op = "construct" /\ last.args[1] = "Name")
    => IF Len(last.args[2]) <= 2
       THEN last.err = "ValueError"
       ELSE /\ last.err = "ok"
            /\ field.cls = "Name"
            /\ Field_str(field.value) = last.args[2]

----------------------------------------------------------------------------
(* The calls on a Record *)

\* the most phones a record is given
MaxPhones == 2

\* Record(name, phones, email, birthday, address): the defaults, the record
\* of one phone, one number written in two ways, and one bad value per field
RecordArgs ==
    {<<Ann, <<>>, None, None, None>>,
     <<Ann, <<PhonePlus380>>, None, None, None>>,
     <<Bob, <<PhonePlus380, Phone0>>, EmailGood, BirthdayLeapDay, AddressGood>>,
     <<Bob, <<PhoneOther>>, None, BirthdayMarch1, None>>,
     <<ShortName, <<>>, None, None, None>>,
     <<Ann, <<PhoneLetter>>, None, None, None>>,
     <<Ann, <<>>, EmailDigitFirst, None, None>>,
     <<Ann, <<>>, None, BirthdayFuture, None>>,
     <<Ann, <<>>, None, None, AddressShort>>}

RecPhones == {PhonePlus380, Phone0, PhoneOther, PhoneLetter}

RecBirthdays == {BirthdayLeapDay, BirthdayMarch1, BirthdayDec31, BirthdayFuture}

\* rec = Record(...)
NewRecord(a) ==
    LET r == Record_init(a[1], a[2], a[3], a[4], a[5], today)
    IN /\ rec' = IF r.ok THEN r.v ELSE rec
       /\ last' = Call("Record", a, r.err, None, rec)
       /\ UNCHANGED <<today, field, book, it>>

\* a method of rec that changes it or raises
Mutate(op, args, r) ==
    /\ rec' = IF r.ok THEN r.v ELSE rec
    /\ last' = Call(op, args, r.err, None, rec)
    /\ UNCHANGED <<today, field, book, it>>

AddPhone(phone) ==
    /\ rec # NoRecord
    /\ Len(rec.phones) < MaxPhones
    /\ Mutate("add_phone", <<phone>>, add_phone(rec, phone, today))

RemovePhone(phone) ==
    /\ rec # NoRecord
    /\ Mutate("remove_phone", <<phone>>, remove_phone(rec, phone, today))

ChangePhone(old_phone, new_phone) ==
    /\ rec # NoRecord
    /\ Mutate("change_phone", <<old_phone, new_phone>>,
              change_phone(rec, old_phone, new_phone, today))

ChangeBirthday(birthday) ==
    /\ rec # NoRecord
    /\ Mutate("change_birthday", <<birthday>>, change_birthday(rec, birthday, today))

DaysToBirthday ==
    /\ rec # NoRecord
    /\ LET r == days_to_birthday(rec, today)
       IN last' = Call("days_to_birthday", <<>>, r.err, r.v, rec)
    /\ UNCHANGED <<today, field, rec, book, it>>

InitRecord ==
    /\ today \in {Date(2023, 3, 1), Date(2024, 2, 29), Date(2024, 12, 31)}
    /\ field = NoField
    /\ rec = NoRecord
    /\ book = <<>>
    /\ it = Idle
    /\ last = NoCall

NextRecord ==
    \/ \E a \in RecordArgs : NewRecord(a)
    \/ \E phone \in RecPhones : AddPhone(phone)
    \/ \E phone \in RecPhones : RemovePhone(phone)
    \/ \E old_phone \in RecPhones : \E new_phone \in RecPhones :
          ChangePhone(old_phone, new_phone)
    \/ \E birthday \in RecBirthdays : ChangeBirthday(birthday)
    \/ DaysToBirthday

\* One Record: a caller that makes it and calls its methods
SpecRecord == InitRecord /\ [][NextRecord]_vars

----------------------------------------------------------------------------
(* Claims on the Record *)

\* the normalization the claims speak of: without spaces, parentheses and
\* hyphens, +380 followed by the last nine characters
Normalized(raw) ==
    LET v == SelectSeq(raw, LAMBDA c : c # " " /\ c # "(" /\ c # ")" /\ c # "-")
    IN <<"+", "3", "8", "0">> \o SubSeq(v, Len(v) - 8, Len(v))

\* C1: no two entries of a record's phone list normalize to the same value.
C1_NoTwoPhonesNormalizeAlike ==
    \A i \in 1..Len(rec.phones) : \A j \in 1..Len(rec.phones) :
        i # j => Normalized(rec.phones[i]) # Normalized(rec.phones[j])

\* the ordinal of the next Feb 28 on or after the date
NextFeb28(now) ==
    IF toordinal(now) <= toordinal(Date(now.year, 2, 28))
    THEN toordinal(Date(now.year, 2, 28))
    ELSE toordinal(Date(now.year + 1, 2, 28))

\* C7: days_to_birthday of a record with a birthday returns an integer >= 0,
\* which is 0 exactly when the birthday's month and day in the current year
\* are today; for a Feb-29 birthday in a non-leap year it does not raise and
\* returns the days to the next Feb 28 on or after today, plus one.
C7_DaysToBirthday ==
    (last.op = "days_to_birthday" /\ rec.birthday # None)
    => LET b == get_date(rec.birthday)
       IN /\ last.err = "ok"
          /\ last.ret >= 0
          /\ (last.ret = 0) <=> (b.month = today.month /\ b.day = today.day)
          /\ (b.month = 2 /\ b.day = 29 /\ ~IsLeap(today.year))
             => last.ret = NextFeb28(today) - toordinal(today) + 1

\* the place of the first entry equal to p in a phone list, or 0
Place(phones, p) ==
    IF \E i \in 1..Len(phones) : phones[i] = p
    THEN CHOOSE i \in 1..Len(phones) :
            phones[i] = p /\ \A j \in 1..Len(phones) : phones[j] = p => i <= j
    ELSE 0

\* change_phone(old, new) went through: same length, new where old was,
\* every other entry as before
Replaced(before, after, old, new) ==
    /\ Len(after) = Len(before)
    /\ after[Place(before, old)] = new
    /\ \A k \in 1..Len(before) : k # Place(before, old) => after[k] = before[k]

----------------------------------------------------------------------------
(* The calls on an AddressBook *)

\* the most records a book is given
MaxRecords == 4

\* the records the book is filled with: Record(name, phones, email, birthday,
\* address) of these arguments
BookRecordArgs ==
    {<<Ann, <<>>, None, None, None>>,
     <<Ann, <<PhonePlus380>>, None, BirthdayMarch1, None>>,
     <<Bob, <<PhonePlus380, Phone0>>, EmailGood, BirthdayLeapDay, AddressGood>>,
     <<Eve, <<PhoneSeparated>>, EmailGood, BirthdayMarch1, None>>,
     <<Dan, <<>>, None, BirthdayDec31, AddressGood>>,
     <<Kim, <<PhoneOther>>, None, BirthdayMarch1, None>>}

SampleRecords(now) ==
    {Record_init(a[1], a[2], a[3], a[4], a[5], now).v : a \in
        {b \in BookRecordArgs : Record_init(b[1], b[2], b[3], b[4], b[5], now).ok}}

BookNames == {Ann, Bob, Eve, Dan, Kim}

\* one entry of the mapping from_dict reads
Entry(name, phones, email, birthday, address) ==
    [key |-> name,
     val |-> [phones |-> phones, email |-> email, birthday |-> birthday,
              address |-> address]]

EntryKim == Entry(Kim, <<PhoneOther>>, None, BirthdayMarch1, None)

EntryAnn == Entry(Ann, <<>>, None, None, None)

EntryDan == Entry(Dan, <<Phone0>>, EmailGood, BirthdayDec31, AddressGood)

EntryBadEmail == Entry(Eve, <<>>, EmailDigitFirst, None, None)

EntryBadPhone == Entry(Bob, <<PhonePlus380, PhoneLetter>>, None, None, None)

EntryShortName == Entry(ShortName, <<>>, None, None, None)

\* what from_dict is called with
SampleMappings ==
    {NotADict,
     <<>>,
     <<EntryKim>>,
     <<EntryBadEmail>>,
     <<EntryKim, EntryAnn>>,
     <<EntryKim, EntryBadEmail>>,
     <<EntryAnn, EntryBadPhone, EntryKim>>,
     <<EntryDan, EntryShortName>>,
     <<EntryDan, EntryKim, EntryAnn>>}

PageSizes == {-1, 0, 1, 2, 3, 5}

\* a call on the book that changes it or raises
BookCall(op, args, r) ==
    /\ it = Idle
    /\ Len(r.data) <= MaxRecords
    /\ book' = r.data
    /\ last' = Call(op, args, r.err, r.ret, book)
    /\ UNCHANGED <<today, field, rec, it>>

AddRecord(record) == BookCall("add_record", <<record>>, add_record(book, record))

DelItem(key) == BookCall("delitem", <<key>>, delitem(book, key))

FromDict(data_json) ==
    BookCall("from_dict", <<data_json>>, from_dict(book, data_json, today))

ToDict == BookCall("to_dict", <<>>, BookOk(book, to_dict(book)))

\* AddressBook().from_dict(d), d being what to_dict has just returned: the
\* new book's data is what the call is recorded to return
FromDictIntoEmpty ==
    /\ last.op = "to_dict"
    /\ LET r == from_dict(<<>>, last.ret, today)
       IN last' = Call("from_dict_into_empty", <<last.ret>>, r.err, r.data, book)
    /\ UNCHANGED <<today, field, rec, book, it>>

GroupsDaysToBd(input_days) ==
    BookCall("groups_days_to_bd", <<input_days>>,
             groups_days_to_bd(book, input_days, today))

\* g = book.iterator(item_number): nothing of the body runs yet
Iterator(item_number) ==
    /\ it = Idle
    /\ it' = [Idle EXCEPT !.pc = "created", !.arg = item_number,
                          !.item_number = item_number]
    /\ last' = Call("iterator", <<item_number>>, "ok", None, book)
    /\ UNCHANGED <<today, field, rec, book>>

\* next(g) raised: ValueError from the head, or StopIteration at the end
IteratorEnds(err) ==
    /\ it' = Idle
    /\ last' = Call("iterator_done", <<it.arg>>, err, it.out, book)
    /\ UNCHANGED <<today, field, rec, book>>

\* next(g)
IteratorNext ==
    /\ it.pc \in {"created", "suspended"}
    /\ IF it.pc = "created" /\ it.item_number <= 0
       THEN IteratorEnds("ValueError")
       ELSE LET m == IF it.pc = "created"
                     THEN iterator_item_number(book, it.item_number)
                     ELSE it.item_number
                a == iterator_advance(book, m, it.counter, <<>>)
            IN IF ~a.yield THEN IteratorEnds("ok")
               ELSE /\ it' = [it EXCEPT !.pc = "suspended", !.item_number = m,
                                        !.counter = a.counter,
                                        !.out = Append(@, a.batch)]
                    /\ last' = Call("next", <<it.arg>>, "ok", a.batch, book)
                    /\ UNCHANGED <<today, field, rec, book>>

InitBook ==
    /\ today \in {Date(2023, 2, 22), Date(2024, 2, 29)}
    /\ field = NoField
    /\ rec = NoRecord
    /\ book = <<>>
    /\ it = Idle
    /\ last = NoCall

NextBook ==
    \/ \E record \in SampleRecords(today) \cup {NoRecord} : AddRecord(record)
    \/ \E key \in BookNames : DelItem(key)
    \/ \E data_json \in SampleMappings : FromDict(data_json)
    \/ ToDict
    \/ FromDictIntoEmpty

\* The book as a store: records added and deleted, exported and imported
SpecBook == InitBook /\ [][NextBook]_vars

NextQuery ==
    \/ \E record \in SampleRecords(today) : AddRecord(record)
    \/ \E input_days \in DayStrings : GroupsDaysToBd(input_days)
    \/ \E item_number \in PageSizes : Iterator(item_number)
    \/ IteratorNext

\* The book as it is read: the birthday window and the paged iteration
SpecQuery == InitBook /\ [][NextQuery]_vars

----------------------------------------------------------------------------
(* Claims on the AddressBook *)

\* C2: a from_dict that fails (on an input that is no mapping, on an entry
\* that fails validation or whose name is a key already) leaves the keys and
\* the records of the book exactly as they were before the call, also when
\* valid entries come before the failing one.
C2_FromDictNoPartialMutation ==
    (last.op = "from_dict" /\ last.err # "ok") => book = last.pre

\* C5: add_record of a record whose name is a key already fails with the
\* duplicate error, and the book is as before: the same keys in the same
\* order, each with the record it held.
C5_AddRecordDuplicate ==
    (/\ last.op = "add_record"
     /\ IsRecord(last.args[1])
     /\ \E i \in 1..Len(last.pre) : last.pre[i].key = last.args[1].name)
    => (/\ last.err = "KeyError"
        /\ Len(book) = Len(last.pre)
        /\ \A i \in 1..Len(book) :
              book[i].key = last.pre[i].key /\ book[i].val = last.pre[i].val)

\* C5's case: the record refused differs from the one the book holds under
\* its name, and the book holds another record too.
C5_Witness ==
    /\ last.op = "add_record"
    /\ last.err = "KeyError"
    /\ Len(book) >= 2
    /\ \E i \in 1..Len(book) :
          book[i].key = last.args[1].name /\ book[i].val # last.args[1]

RECURSIVE Flatten(_)
Flatten(batches) ==
    IF Len(batches) = 0 THEN <<>> ELSE Head(batches) \o Flatten(Tail(batches))

\* C6: consumed to its end, iterator(pageSize) with pageSize >= 1 yields
\* batches that put together are the book's records in insertion order;
\* each batch is non-empty, each but the last has min(pageSize, n) records
\* and the last has at most that many.  With pageSize <= 0 it fails and
\* yields nothing.
C6_Iterator ==
    last.op = "iterator_done"
    => LET pageSize == last.args[1]
           batches == last.ret
           n == Len(book)
           m == IF pageSize < n THEN pageSize ELSE n
       IN IF pageSize <= 0
          THEN last.err = "ValueError" /\ batches = <<>>
          ELSE /\ last.err = "ok"
               /\ Flatten(batches) = [i \in 1..n |-> book[i].val]
               /\ \A i \in 1..Len(batches) :
                     /\ Len(batches[i]) >= 1
                     /\ i < Len(batches) => Len(batches[i]) = m
                     /\ Len(batches[i]) <= m

\* C6's case: three records read two to a page, in batches of 2 and 1.
C6_Witness ==
    /\ last.op = "iterator_done"
    /\ last.args[1] = 2
    /\ Len(book) = 3
    /\ Len(last.ret) = 2
    /\ Len(last.ret[1]) = 2
    /\ Len(last.ret[2]) = 1

\* the month and day of the record's birthday are, in the current year, a
\* date from today to today + n, both included
InClaimedWindow(r, now, n) ==
    LET b == get_date(r.birthday)
    IN /\ IsDate(now.year, b.month, b.day)
       /\ toordinal(now) <= toordinal(Date(now.year, b.month, b.day))
       /\ toordinal(Date(now.year, b.month, b.day)) <= toordinal(now) + n

NoBirthday(data) == \E i \in 1..Len(data) : data[i].val.birthday = None

\* a birthday of the book falls on no day of the current year
NoSuchDay(data, now) ==
    \E i \in 1..Len(data) :
        /\ data[i].val.birthday # None
        /\ ~IsDate(now.year, get_date(data[i].val.birthday).month,
                   get_date(data[i].val.birthday).day)

\* C10 as stated: with a birthday in every record and N a digit string,
\* groups_days_to_bd(N) returns, in insertion order, the records whose
\* birthday in the current year is a date in [today, today + N]; it fails
\* if a record has no birthday, and if N is no digit string.
C10_GroupsAsStated ==
    last.op = "groups_days_to_bd"
    => LET N == last.args[1]
       IN IF ~(Len(N) > 0 /\ \A i \in 1..Len(N) : N[i] \in Digits)
          THEN last.err # "ok"
          ELSE IF NoBirthday(book) THEN last.err # "ok"
          ELSE /\ last.err = "ok"
               /\ last.ret = SelectSeq([i \in 1..Len(book) |-> book[i].val],
                                LAMBDA r : InClaimedWindow(r, today, int(N)))

\* C10, amended: as stated, and the query fails as well if a record's
\* birthday is Feb 29 and the current year is no leap year, and if today + N
\* is past the last date there is (9999-12-31).
C10_Groups ==
    last.op = "groups_days_to_bd"
    => LET N == last.args[1]
       IN IF ~(Len(N) > 0 /\ \A i \in 1..Len(N) : N[i] \in Digits)
          THEN last.err # "ok"
          ELSE IF toordinal(today) + int(N) > toordinal(Date(9999, 12, 31))
          THEN last.err # "ok"
          ELSE IF NoBirthday(book) \/ NoSuchDay(book, today) THEN last.err # "ok"
          ELSE /\ last.err = "ok"
               /\ last.ret = SelectSeq([i \in 1..Len(book) |-> book[i].val],
                                LAMBDA r : InClaimedWindow(r, today, int(N)))

\* C10's case: the query returned a record whose birthday is the last day of
\* the window, and left out another.
C10_Witness ==
    /\ last.op = "groups_days_to_bd"
    /\ last.err = "ok"
    /\ int(last.args[1]) > 0
    /\ Len(last.ret) < Len(book)
    /\ \E i \in 1..Len(last.ret) :
          LET b == get_date(last.ret[i].birthday)
          IN toordinal(Date(today.year, b.month, b.day))
                = toordinal(today) + int(last.args[1])

====
